---- MODULE Spec2Model ----
(***************************************************************************)
(* Model of the file metadata store of src/src/mai.cpp: a directory tree   *)
(* (DirectoryNode), a flat fileId -> FileMetadata table, and an            *)
(* InvertedIndex of four attribute indexes whose entries are sorted        *)
(* posting lists (CompressedInvertedList), driven by FileSystemSimulator.  *)
(*                                                                         *)
(* C++ strings that the code parses (paths, file names) are sequences of   *)
(* one-character strings; strings the code only compares (extension,       *)
(* owner, createTime) are TLA+ strings.  A pointer is a sequence of length *)
(* at most one: <<>> is nullptr (or an expired weak_ptr), <<a>> points to  *)
(* the node at address a.  A node's address is the sequence of children    *)
(* keys that leads to it from the root.                                    *)
(*                                                                         *)
(* Four specifications share the state: Spec runs whole calls one at a     *)
(* time, SpecList feeds one posting list arbitrary identifiers,            *)
(* SpecThreads interleaves the steps of calls made by concurrent threads,  *)
(* and SpecThreadsFair adds fair scheduling to it.                         *)
(***************************************************************************)
EXTENDS Integers, Sequences, FiniteSets, TLC

VARIABLES
    nodes,            \* the DirectoryNode objects owned (transitively) by root
    fileMetadataMap,  \* FileSystemSimulator::fileMetadataMap
    extensionIndex,   \* InvertedIndex::extensionIndex
    sizeIndex,        \* InvertedIndex::sizeIndex
    ownerIndex,       \* InvertedIndex::ownerIndex
    timeIndex,        \* InvertedIndex::timeIndex
    nextFileId,       \* FileSystemSimulator::nextFileId
    last,             \* the whole call that returned last, its arguments and result
    assigned,         \* history: the identifiers adds have taken, in the order taken
    sortedFileIds,    \* a CompressedInvertedList on its own: its sortedFileIds
    treeMetadataMutex, \* FileSystemSimulator::treeMetadataMutex: who holds it, how
    indexMutex,       \* InvertedIndex::indexMutex: who holds it, how
    pc,               \* per thread: the step of its call it is about to take
    frame             \* per thread: the arguments and locals of its call

vars == <<nodes, fileMetadataMap, extensionIndex, sizeIndex, ownerIndex,
          timeIndex, nextFileId, last, assigned, sortedFileIds,
          treeMetadataMutex, indexMutex, pc, frame>>

threadVars == <<treeMetadataMutex, indexMutex, pc, frame>>

store == <<nodes, fileMetadataMap, extensionIndex, sizeIndex, ownerIndex,
           timeIndex, nextFileId>>

----------------------------------------------------------------------------
(* Bounds and input sets *)

\* adds stop once this many identifiers have been handed out
MaxFiles == 2

\* the identifiers a posting list on its own is fed: 1 .. MaxListId
MaxListId == 5

\* the threads of the concurrent specification
Threads == {"t1", "t2"}

SEP == "/"

\* path arguments of add: "", "a", "/", "/a", "/a/"
Paths == { <<>>, <<"a">>, <<SEP>>, <<SEP, "a">>, <<SEP, "a", SEP>> }

\* file names: one path segment each
Names == { <<"a">>, <<"b">> }

\* the attributes a file is added with: extension, size, owner, creation time
Exts == {".jpg", ".png"}
Sizes == {1, 2, 3}
FileAttrs == { <<".jpg", 1, "u1", "t1">>, <<".png", 2, "u1", "t2">>,
               <<".jpg", 2, "u2", "t1">> }

----------------------------------------------------------------------------
(* Strings *)

\* std::string operator+
Concat(s, t) == s \o t

RECURSIVE GetlineParts(_)
\* the parts the loop `while (getline(ss, part, '/'))` reads from a stream
\* holding s: the text up to each delimiter; nothing is read at end of stream
GetlineParts(s) ==
    IF s = <<>> THEN <<>>
    ELSE LET seps == {i \in 1..Len(s) : s[i] = SEP}
         IN  IF seps = {} THEN <<s>>
             ELSE LET i == CHOOSE j \in seps : \A k \in seps : j <= k
                  IN  <<SubSeq(s, 1, i - 1)>> \o GetlineParts(SubSeq(s, i + 1, Len(s)))

----------------------------------------------------------------------------
(* DirectoryNode *)

NullPtr == <<>>
Ptr(a) == <<a>>
Deref(p) == p[1]

RootAddr == <<>>

\* DirectoryNode(n, isDir): no file data, no children, no parent
DirectoryNode(n, isDir) ==
    [name |-> n, isDirectory |-> isDir, fileData |-> NullPtr,
     children |-> <<>>, parent |-> NullPtr]

IsPrefix(a, b) == Len(a) <= Len(b) /\ SubSeq(b, 1, Len(a)) = a

\* the nodes left once the shared_ptr to the node at address a is dropped:
\* that node and everything it owns is destroyed
Destroy(ns, a) == [b \in {c \in DOMAIN ns : ~IsPrefix(a, c)} |-> ns[b]]

\* m[k] = v for an unordered_map / map m (insert or assign)
MapPut(m, k, v) == [x \in DOMAIN m \cup {k} |-> IF x = k THEN v ELSE m[x]]

\* m.erase(k)
MapErase(m, k) == [x \in DOMAIN m \ {k} |-> m[x]]

----------------------------------------------------------------------------
(* CompressedInvertedList: a sorted vector<int> *)

\* std::lower_bound: the first position whose element is not less than x
LowerBound(ids, x) ==
    LET ge == {i \in 1..Len(ids) : ids[i] >= x}
    IN  IF ge = {} THEN Len(ids) + 1
        ELSE CHOOSE i \in ge : \A j \in ge : i <= j

\* vector::insert(it, x)
VecInsert(ids, i, x) == SubSeq(ids, 1, i - 1) \o <<x>> \o SubSeq(ids, i, Len(ids))

\* vector::erase(it)
VecErase(ids, i) == SubSeq(ids, 1, i - 1) \o SubSeq(ids, i + 1, Len(ids))

\* faulty variant of addFileId: the new identifier goes to the end
addFileIdAtEnd(ids, fileId) ==
    LET it == LowerBound(ids, fileId)
    IN  IF it = Len(ids) + 1 \/ ids[it] # fileId
        THEN Append(ids, fileId)
        ELSE ids

addFileId(ids, fileId) ==
    LET it == LowerBound(ids, fileId)
    IN  IF it = Len(ids) + 1 \/ ids[it] # fileId
        THEN VecInsert(ids, it, fileId)
        ELSE ids

removeFileId(ids, fileId) ==
    LET it == LowerBound(ids, fileId)
    IN  IF it # Len(ids) + 1 /\ ids[it] = fileId
        THEN VecErase(ids, it)
        ELSE ids

\* CompressedInvertedList::getMemoryUsage, with sizeof(int) = 4
SizeofInt == 4
ListMemoryUsage(ids) == Len(ids) * SizeofInt

----------------------------------------------------------------------------
(* InvertedIndex *)

\* index[key] of a map: a missing key is first inserted with an empty list
MapAt(index, key) == IF key \in DOMAIN index THEN index[key] ELSE <<>>

\* index[key].addFileId(fileId)
IndexAdd(index, key, fileId) == MapPut(index, key, addFileId(MapAt(index, key), fileId))

\* index[key].removeFileId(fileId): operator[] inserts a missing key
IndexRemoveFileId(index, key, fileId) ==
    MapPut(index, key, removeFileId(MapAt(index, key), fileId))

\* faulty variant of IndexEraseEmpty: an emptied entry stays in the map
IndexEraseEmptyNever(index, key) == index

\* if (index[key].empty()) index.erase(key)
IndexEraseEmpty(index, key) ==
    IF MapAt(index, key) = <<>> THEN MapErase(index, key) ELSE index

\* index[key].removeFileId(fileId); if (index[key].empty()) index.erase(key);
IndexRemove(index, key, fileId) ==
    LET ids == removeFileId(MapAt(index, key), fileId)
    IN  IF ids = <<>> THEN MapErase(index, key) ELSE MapPut(index, key, ids)

\* the identifiers of a sequence
Range(ids) == {ids[i] : i \in 1..Len(ids)}

RECURSIVE SortedSeq(_)
\* the elements of a set of integers in increasing order
SortedSeq(S) ==
    IF S = {} THEN <<>>
    ELSE LET m == CHOOSE x \in S : \A y \in S : x <= y
         IN  <<m>> \o SortedSeq(S \ {m})

RECURSIVE Insertions(_, _)
\* ids with each element of xs inserted in turn at its sorted position: std::sort
Insertions(ids, xs) ==
    IF xs = <<>> THEN ids
    ELSE Insertions(VecInsert(ids, LowerBound(ids, Head(xs)), Head(xs)), Tail(xs))

StdSort(ids) == Insertions(<<>>, ids)

RECURSIVE StdUnique(_)
\* std::unique followed by erase: every run of equal neighbours keeps its first
StdUnique(ids) ==
    IF Len(ids) <= 1 THEN ids
    ELSE IF ids[1] = ids[2] THEN StdUnique(Tail(ids))
         ELSE <<ids[1]>> \o StdUnique(Tail(ids))

\* faulty variant of QueryExact: the list of some key is returned, whatever
\* the key asked for
QueryExactAnyKey(index, key) ==
    IF DOMAIN index = {} THEN <<>> ELSE index[CHOOSE k \in DOMAIN index : TRUE]

\* exact-match lookup: queryByExtension / queryByOwner / queryByTime
QueryExact(index, key) == IF key \in DOMAIN index THEN index[key] ELSE <<>>

queryByExtension(ext) == QueryExact(extensionIndex, ext)
queryByOwner(owner) == QueryExact(ownerIndex, owner)
queryByTime(time) == QueryExact(timeIndex, time)

\* the keys of the ordered map sizeIndex, in iteration order
SizeKeys == SortedSeq(DOMAIN sizeIndex)

\* faulty variant of MapUpperBound: the upper end of the range is left out
MapUpperBoundExclusive(keys, k) == LowerBound(keys, k)

\* map::lower_bound / map::upper_bound as positions in SizeKeys; Len + 1 is end()
MapLowerBound(keys, k) == LowerBound(keys, k)
MapUpperBound(keys, k) == LowerBound(keys, k + 1)

RECURSIVE ConcatLists(_, _, _)
\* the loop of queryBySizeRange: the lists of keys[lo .. hi-1], end to end
ConcatLists(keys, lo, hi) ==
    IF lo = hi THEN <<>>
    ELSE sizeIndex[keys[lo]] \o ConcatLists(keys, lo + 1, hi)

\* queryBySizeRange runs `for (it = lower; it != upper; ++it)`: when lower lies
\* behind upper the loop increments and dereferences end(), which is undefined
RangeLoopOverrun(minSize, maxSize) ==
    MapLowerBound(SizeKeys, minSize) > MapUpperBound(SizeKeys, maxSize)

\* queryBySizeRange when the loop ends at upper
queryBySizeRange(minSize, maxSize) ==
    LET lower == MapLowerBound(SizeKeys, minSize)
        upper == MapUpperBound(SizeKeys, maxSize)
    IN  StdUnique(StdSort(ConcatLists(SizeKeys, lower, upper)))

\* what an undefined run of the loop may do: never return (a crash, an endless
\* loop), or return whatever lists it walked over
UndefinedOutcomes ==
    {[returns |-> FALSE, fileIds |-> <<>>]}
    \cup {[returns |-> TRUE, fileIds |-> ids] :
              ids \in {<<>>} \cup {sizeIndex[k] : k \in DOMAIN sizeIndex}}

\* the outcomes of a call of InvertedIndex::queryBySizeRange
queryBySizeRangeOutcomes(minSize, maxSize) ==
    IF RangeLoopOverrun(minSize, maxSize)
    THEN UndefinedOutcomes
    ELSE {[returns |-> TRUE, fileIds |-> queryBySizeRange(minSize, maxSize)]}

\* InvertedIndex::getMemoryUsage
RECURSIVE SumMemory(_, _)
SumMemory(index, keys) ==
    IF keys = {} THEN 0
    ELSE LET k == CHOOSE x \in keys : TRUE
         IN  ListMemoryUsage(index[k]) + SumMemory(index, keys \ {k})

IndexMemoryUsage ==
    SumMemory(extensionIndex, DOMAIN extensionIndex)
    + SumMemory(sizeIndex, DOMAIN sizeIndex)
    + SumMemory(ownerIndex, DOMAIN ownerIndex)
    + SumMemory(timeIndex, DOMAIN timeIndex)

----------------------------------------------------------------------------
(* FileSystemSimulator: path walks *)

RECURSIVE CreateWalkNoParent(_, _, _)
\* faulty variant of CreateWalk: newNode->parent = current is forgotten
CreateWalkNoParent(ns, cur, parts) ==
    IF parts = <<>> THEN [node |-> Ptr(cur), nodes |-> ns]
    ELSE LET part == Head(parts)
         IN  IF part = <<>> THEN CreateWalkNoParent(ns, cur, Tail(parts))
             ELSE LET new == Append(cur, part)
                      ns1 == IF part \notin DOMAIN ns[cur].children
                             THEN [MapPut(ns, new, DirectoryNode(part, TRUE)) EXCEPT
                                      ![cur].children = MapPut(@, part, new)]
                             ELSE ns
                  IN  CreateWalkNoParent(ns1, ns1[cur].children[part], Tail(parts))

RECURSIVE CreateWalk(_, _, _)
\* the loop of getOrCreatePath from node cur over the remaining parts
CreateWalk(ns, cur, parts) ==
    IF parts = <<>> THEN [node |-> Ptr(cur), nodes |-> ns]
    ELSE LET part == Head(parts)
         IN  IF part = <<>> THEN CreateWalk(ns, cur, Tail(parts))
             ELSE LET new == Append(cur, part)
                      newNode == [DirectoryNode(part, TRUE) EXCEPT !.parent = Ptr(cur)]
                      ns1 == IF part \notin DOMAIN ns[cur].children
                             THEN [MapPut(ns, new, newNode) EXCEPT
                                      ![cur].children = MapPut(@, part, new)]
                             ELSE ns
                  IN  CreateWalk(ns1, ns1[cur].children[part], Tail(parts))

\* getOrCreatePath: the node reached (nullptr for a rejected path) and the tree after
getOrCreatePath(ns, path) ==
    IF path = <<>> \/ path[1] # SEP THEN [node |-> NullPtr, nodes |-> ns]
    ELSE IF path = <<SEP>> THEN [node |-> Ptr(RootAddr), nodes |-> ns]
    ELSE CreateWalk(ns, RootAddr, GetlineParts(Tail(path)))

RECURSIVE FindWalkNoSkip(_, _, _)
\* faulty variant of FindWalk: an empty part is looked up like any other
FindWalkNoSkip(ns, cur, parts) ==
    IF parts = <<>> THEN Ptr(cur)
    ELSE LET part == Head(parts)
         IN  IF part \notin DOMAIN ns[cur].children THEN NullPtr
             ELSE FindWalkNoSkip(ns, ns[cur].children[part], Tail(parts))

RECURSIVE FindWalk(_, _, _)
\* the loop of findFileNode
FindWalk(ns, cur, parts) ==
    IF parts = <<>> THEN Ptr(cur)
    ELSE LET part == Head(parts)
         IN  IF part = <<>> THEN FindWalk(ns, cur, Tail(parts))
             ELSE IF part \notin DOMAIN ns[cur].children THEN NullPtr
             ELSE FindWalk(ns, ns[cur].children[part], Tail(parts))

findFileNode(ns, fullPath) ==
    IF fullPath = <<>> \/ fullPath[1] # SEP THEN NullPtr
    ELSE IF fullPath = <<SEP>> THEN Ptr(RootAddr)
    ELSE FindWalk(ns, RootAddr, GetlineParts(Tail(fullPath)))

RECURSIVE traverseAndFilter(_, _)
\* the records the recursive visit from the node at address a hands to the filter
traverseAndFilter(ns, a) ==
    (IF ~ns[a].isDirectory /\ ns[a].fileData # NullPtr
     THEN {Deref(ns[a].fileData)} ELSE {})
    \cup UNION {traverseAndFilter(ns, ns[a].children[k]) : k \in DOMAIN ns[a].children}

----------------------------------------------------------------------------
(* FileSystemSimulator: operations, each run to completion *)

FileMetadata(id, name, ext, size, own, time, path) ==
    [fileId |-> id, fileName |-> name, extension |-> ext, fileSize |-> size,
     owner |-> own, createTime |-> time, fullPath |-> path]

\* faulty variant of InvertedIndexAddFile: the creation-time index is forgotten
InvertedIndexAddFileSkipTime(file) ==
    /\ extensionIndex' = IndexAdd(extensionIndex, file.extension, file.fileId)
    /\ sizeIndex' = IndexAdd(sizeIndex, file.fileSize, file.fileId)
    /\ ownerIndex' = IndexAdd(ownerIndex, file.owner, file.fileId)
    /\ timeIndex' = timeIndex

\* InvertedIndex::addFile
InvertedIndexAddFile(file) ==
    /\ extensionIndex' = IndexAdd(extensionIndex, file.extension, file.fileId)
    /\ sizeIndex' = IndexAdd(sizeIndex, file.fileSize, file.fileId)
    /\ ownerIndex' = IndexAdd(ownerIndex, file.owner, file.fileId)
    /\ timeIndex' = IndexAdd(timeIndex, file.createTime, file.fileId)

\* faulty variant of InvertedIndexRemoveFile: the owner index is forgotten
InvertedIndexRemoveFileSkipOwner(file) ==
    /\ extensionIndex' = IndexRemove(extensionIndex, file.extension, file.fileId)
    /\ sizeIndex' = IndexRemove(sizeIndex, file.fileSize, file.fileId)
    /\ ownerIndex' = ownerIndex
    /\ timeIndex' = IndexRemove(timeIndex, file.createTime, file.fileId)

\* InvertedIndex::removeFile
InvertedIndexRemoveFile(file) ==
    /\ extensionIndex' = IndexRemove(extensionIndex, file.extension, file.fileId)
    /\ sizeIndex' = IndexRemove(sizeIndex, file.fileSize, file.fileId)
    /\ ownerIndex' = IndexRemove(ownerIndex, file.owner, file.fileId)
    /\ timeIndex' = IndexRemove(timeIndex, file.createTime, file.fileId)

\* path + (path.back() == '/' ? "" : "/") + fileName
FullPath(path, fileName) ==
    Concat(Concat(path, IF path[Len(path)] = SEP THEN <<>> ELSE <<SEP>>), fileName)

\* faulty variant of AttachFile: a name the directory already holds keeps its
\* node (children.insert instead of children[fileName] =)
AttachFileKeepExisting(ns, pathNode, fileName, fileNode) ==
    IF fileName \in DOMAIN ns[pathNode].children THEN ns
    ELSE [MapPut(ns, Append(pathNode, fileName), fileNode) EXCEPT
             ![pathNode].children = MapPut(@, fileName, Append(pathNode, fileName))]

\* pathNode->children[fileName] = fileNode: the node the key held before, if
\* any, loses its only owner
AttachFile(ns, pathNode, fileName, fileNode) ==
    LET new == Append(pathNode, fileName)
        ns1 == IF fileName \in DOMAIN ns[pathNode].children
               THEN Destroy(ns, ns[pathNode].children[fileName])
               ELSE ns
    IN  [MapPut(ns1, new, fileNode) EXCEPT ![pathNode].children = MapPut(@, fileName, new)]

\* faulty variant of DetachFile: the node stays in its parent's children
DetachFileNoErase(ns, fileNode) == ns

\* if (auto parent = fileNode->parent.lock()) parent->children.erase(fileNode->name)
DetachFile(ns, fileNode) ==
    LET n == ns[fileNode]
    IN  IF n.parent # NullPtr /\ Deref(n.parent) \in DOMAIN ns
        THEN LET parent == Deref(n.parent)
             IN  IF n.name \in DOMAIN ns[parent].children
                 THEN [Destroy(ns, ns[parent].children[n.name]) EXCEPT
                          ![parent].children = MapErase(@, n.name)]
                 ELSE ns
        ELSE ns

\* faulty variant of addFile: the identifier is taken before the path is checked
addFileIdFirst(path, fileName, extension, fileSize, owner, createTime) ==
    LET r == getOrCreatePath(nodes, path)
    IN  /\ nextFileId <= MaxFiles
        /\ nextFileId' = nextFileId + 1
        /\ assigned' = Append(assigned, nextFileId)
        /\ IF r.node = NullPtr
           THEN /\ last' = [op |-> "addFile", path |-> path, ret |-> FALSE]
                /\ UNCHANGED <<nodes, fileMetadataMap, extensionIndex, sizeIndex,
                               ownerIndex, timeIndex>>
           ELSE LET pathNode == Deref(r.node)
                    fileData == FileMetadata(nextFileId, fileName, extension, fileSize,
                                             owner, createTime, FullPath(path, fileName))
                    fileNode == [DirectoryNode(fileName, FALSE) EXCEPT
                                    !.fileData = Ptr(fileData), !.parent = Ptr(pathNode)]
                IN  /\ nodes' = AttachFile(r.nodes, pathNode, fileName, fileNode)
                    /\ fileMetadataMap' = MapPut(fileMetadataMap, nextFileId, fileData)
                    /\ InvertedIndexAddFile(fileData)
                    /\ last' = [op |-> "addFile", path |-> path, ret |-> TRUE,
                                fileId |-> nextFileId]

addFile(path, fileName, extension, fileSize, owner, createTime) ==
    LET r == getOrCreatePath(nodes, path)
    IN  IF r.node = NullPtr
        THEN /\ last' = [op |-> "addFile", path |-> path, ret |-> FALSE]
             /\ UNCHANGED <<store, assigned>>
        ELSE /\ nextFileId <= MaxFiles
             /\ LET pathNode == Deref(r.node)
                    fileId == nextFileId
                    fullPath == FullPath(path, fileName)
                    fileData == FileMetadata(fileId, fileName, extension, fileSize,
                                             owner, createTime, fullPath)
                    fileNode == [DirectoryNode(fileName, FALSE) EXCEPT
                                    !.fileData = Ptr(fileData), !.parent = Ptr(pathNode)]
                IN  /\ nextFileId' = nextFileId + 1
                    /\ nodes' = AttachFile(r.nodes, pathNode, fileName, fileNode)
                    /\ fileMetadataMap' = MapPut(fileMetadataMap, fileId, fileData)
                    /\ InvertedIndexAddFile(fileData)
                    /\ assigned' = Append(assigned, fileId)
                    /\ last' = [op |-> "addFile", path |-> path, ret |-> TRUE,
                                fileId |-> fileId]

\* faulty variant of removeFileReturns: a directory node is accepted
removeFileReturnsAnyNode(ns, fullPath) == findFileNode(ns, fullPath) # NullPtr

\* the value removeFile(fullPath) returns on the tree ns
removeFileReturns(ns, fullPath) ==
    LET fileNode == findFileNode(ns, fullPath)
    IN  ~(fileNode = NullPtr \/ ns[Deref(fileNode)].isDirectory)

removeFile(fullPath) ==
    LET fileNode == findFileNode(nodes, fullPath)
    IN  IF ~removeFileReturns(nodes, fullPath)
        THEN /\ last' = [op |-> "removeFile", fullPath |-> fullPath, ret |-> FALSE]
             /\ UNCHANGED <<store, assigned>>
        ELSE LET fileData == nodes[Deref(fileNode)].fileData
             IN  /\ IF fileData # NullPtr
                    THEN /\ InvertedIndexRemoveFile(Deref(fileData))
                         /\ fileMetadataMap' = MapErase(fileMetadataMap, Deref(fileData).fileId)
                    ELSE UNCHANGED <<extensionIndex, sizeIndex, ownerIndex, timeIndex,
                                     fileMetadataMap>>
                 /\ nodes' = DetachFile(nodes, Deref(fileNode))
                 /\ last' = [op |-> "removeFile", fullPath |-> fullPath, ret |-> TRUE]
                 /\ UNCHANGED <<nextFileId, assigned>>

\* faulty variant of Resolve: the loop stops at the first identifier the flat
\* table does not hold
RECURSIVE ResolveUntilMissing(_, _)
ResolveUntilMissing(table, fileIds) ==
    IF fileIds = <<>> \/ Head(fileIds) \notin DOMAIN table THEN <<>>
    ELSE <<table[Head(fileIds)]>> \o ResolveUntilMissing(table, Tail(fileIds))

\* the loop of the indexed queries: the records the flat table holds for fileIds
RECURSIVE Resolve(_, _)
Resolve(table, fileIds) ==
    IF fileIds = <<>> THEN <<>>
    ELSE (IF Head(fileIds) \in DOMAIN table THEN <<table[Head(fileIds)]>> ELSE <<>>)
         \o Resolve(table, Tail(fileIds))

\* The queries change nothing; each is an operator on the current state.
\* The traversal's result is a set: the visit follows unordered_map iteration order
queryByExtensionTraditional(ext) ==
    {file \in traverseAndFilter(nodes, RootAddr) : file.extension = ext}

queryByExtensionIndexed(ext) == Resolve(fileMetadataMap, queryByExtension(ext))

queryByOwnerIndexed(owner) == Resolve(fileMetadataMap, queryByOwner(owner))

queryBySizeRangeIndexed(minSize, maxSize) ==
    Resolve(fileMetadataMap, queryBySizeRange(minSize, maxSize))

getTotalFiles == Cardinality(DOMAIN fileMetadataMap)

getIndexMemoryUsage == IndexMemoryUsage

----------------------------------------------------------------------------
(* std::shared_mutex: the threads holding it exclusively and in shared mode *)

Unlocked == [exclusive |-> {}, shared |-> {}]

\* unique_lock<shared_mutex> lock(m): blocks while anyone holds m
CanLockUnique(m) == m.exclusive = {} /\ m.shared = {}
LockUnique(m, t) == [m EXCEPT !.exclusive = @ \cup {t}]

\* shared_lock<shared_mutex> lock(m): blocks while a writer holds m
CanLockShared(m) == m.exclusive = {}
LockShared(m, t) == [m EXCEPT !.shared = @ \cup {t}]

\* the lock's destructor
Unlock(m, t) == [exclusive |-> m.exclusive \ {t}, shared |-> m.shared \ {t}]

\* a thread that is in no call
NoFrame == [op |-> "none"]

----------------------------------------------------------------------------
(* The sequential specification: calls made one at a time *)

Init ==
    /\ nodes = (RootAddr :> DirectoryNode(<<SEP>>, TRUE))
    /\ fileMetadataMap = <<>>
    /\ extensionIndex = <<>>
    /\ sizeIndex = <<>>
    /\ ownerIndex = <<>>
    /\ timeIndex = <<>>
    /\ nextFileId = 1
    /\ last = [op |-> "none"]
    /\ assigned = <<>>
    /\ sortedFileIds = <<>>
    /\ treeMetadataMutex = Unlocked
    /\ indexMutex = Unlocked
    /\ pc = [t \in Threads |-> "idle"]
    /\ frame = [t \in Threads |-> NoFrame]

AddFile ==
    /\ \E path \in Paths, fileName \in Names, attrs \in FileAttrs :
          addFile(path, fileName, attrs[1], attrs[2], attrs[3], attrs[4])
    /\ UNCHANGED <<sortedFileIds, threadVars>>

\* full-path arguments of remove: "", "a", "/", "/a", "/b", "//a/", "/a/a", "/a/b"
FullPaths == { <<>>, <<"a">>, <<SEP>>, <<SEP, "a">>, <<SEP, "b">>,
               <<SEP, SEP, "a", SEP>>, <<SEP, "a", SEP, "a">>, <<SEP, "a", SEP, "b">> }

RemoveFile ==
    /\ \E fullPath \in FullPaths : removeFile(fullPath)
    /\ UNCHANGED <<sortedFileIds, threadVars>>

Next == AddFile \/ RemoveFile

Spec == Init /\ [][Next]_vars

----------------------------------------------------------------------------
(* Properties of the sequential specification *)

StrictlyIncreasing(ids) == \A i \in 1..Len(ids) - 1 : ids[i] < ids[i + 1]

FileIds(files) == {file.fileId : file \in files}

\* the posting lists of an index that hold id
KeysHolding(index, id) == {k \in DOMAIN index : id \in Range(index[k])}

\* the records of the flat table
TableRecords == {fileMetadataMap[id] : id \in DOMAIN fileMetadataMap}

\* C1: for every extension, the namespace traversal and the indexed query
\* return the same set of file identifiers
C1_BaselineEquivalence ==
    \A ext \in Exts :
        FileIds(queryByExtensionTraditional(ext))
            = FileIds(Range(queryByExtensionIndexed(ext)))

\* C2: every record of the flat table has its identifier in exactly one posting
\* list of each of the four indexes, the list keyed by the record's own value
C2_IndexCompleteness ==
    \A id \in DOMAIN fileMetadataMap :
        LET file == fileMetadataMap[id]
        IN  /\ KeysHolding(extensionIndex, id) = {file.extension}
            /\ KeysHolding(sizeIndex, id) = {file.fileSize}
            /\ KeysHolding(ownerIndex, id) = {file.owner}
            /\ KeysHolding(timeIndex, id) = {file.createTime}

C2_Witness ==
    /\ last.op = "removeFile" /\ last.ret
    /\ Cardinality(DOMAIN fileMetadataMap) >= 1

\* C3: every identifier in a posting list of any of the four indexes has a
\* record in the flat table whose attribute equals the key of that list
C3_IndexSoundness ==
    /\ \A k \in DOMAIN extensionIndex : \A id \in Range(extensionIndex[k]) :
          id \in DOMAIN fileMetadataMap /\ fileMetadataMap[id].extension = k
    /\ \A k \in DOMAIN sizeIndex : \A id \in Range(sizeIndex[k]) :
          id \in DOMAIN fileMetadataMap /\ fileMetadataMap[id].fileSize = k
    /\ \A k \in DOMAIN ownerIndex : \A id \in Range(ownerIndex[k]) :
          id \in DOMAIN fileMetadataMap /\ fileMetadataMap[id].owner = k
    /\ \A k \in DOMAIN timeIndex : \A id \in Range(timeIndex[k]) :
          id \in DOMAIN fileMetadataMap /\ fileMetadataMap[id].createTime = k

C3_Witness ==
    /\ last.op = "removeFile" /\ last.ret
    /\ \E k \in DOMAIN ownerIndex : ownerIndex[k] # <<>>

\* the records some indexed query returns for the attributes of file
ReturnedFor(file) ==
    Range(queryByExtensionIndexed(file.extension))
    \cup Range(queryByOwnerIndexed(file.owner))
    \cup UNION {Range(queryBySizeRangeIndexed(lo, hi)) :
                  <<lo, hi>> \in {r \in Sizes \X Sizes :
                                    r[1] <= file.fileSize /\ file.fileSize <= r[2]}}

\* C4: right after a successful add, the indexed queries by the new record's
\* extension, by its owner and by every size range containing its size return
\* it; right after a successful remove of a full path, none of these queries
\* returns a record with that full path
C4_RoundTrip ==
    /\ (last.op = "addFile" /\ last.ret) =>
          LET file == fileMetadataMap[last.fileId]
          IN  /\ file \in Range(queryByExtensionIndexed(file.extension))
              /\ file \in Range(queryByOwnerIndexed(file.owner))
              /\ \A lo \in Sizes, hi \in Sizes :
                    (lo <= file.fileSize /\ file.fileSize <= hi)
                        => file \in Range(queryBySizeRangeIndexed(lo, hi))
    /\ (last.op = "removeFile" /\ last.ret) =>
          \A file \in TableRecords :
              file.fullPath = last.fullPath => file \notin ReturnedFor(file)

\* C5: removing the full path of a file of the namespace returns true, and
\* a second remove of the same full path right after it returns false
C5_IdempotentRemoval ==
    /\ \A a \in DOMAIN nodes :
          ~nodes[a].isDirectory
              => removeFileReturns(nodes, Deref(nodes[a].fileData).fullPath)
    /\ (last.op = "removeFile" /\ last.ret)
          => ~removeFileReturns(nodes, last.fullPath)

C5_Witness ==
    /\ last.op = "removeFile" /\ last.ret
    /\ \E a \in DOMAIN nodes : ~nodes[a].isDirectory

\* the identifiers of the registered records whose size lies in [lo, hi]
IdsInRange(lo, hi) ==
    {id \in DOMAIN fileMetadataMap :
        lo <= fileMetadataMap[id].fileSize /\ fileMetadataMap[id].fileSize <= hi}

C9_FailedCallChangesNothing ==
    [][(last'.op \in {"addFile", "removeFile"} /\ ~last'.ret) => store' = store]_vars

C9_Witness ==
    /\ last.op = "addFile" /\ ~last.ret
    /\ DOMAIN fileMetadataMap # {}

\* the nonempty segments of a path string after its leading delimiter
Segments(path) == SelectSeq(GetlineParts(Tail(path)), LAMBDA part : part # <<>>)

\* path names a file node of the tree ns: a node's address is its segments
ResolvesToFile(ns, path) ==
    /\ path # <<>> /\ path[1] = SEP
    /\ Segments(path) \in DOMAIN ns
    /\ ~ns[Segments(path)].isDirectory

\* C10: remove returns true when its path resolves to a file node, and false
\* when it resolves to no node or to a directory node, the root included
C10_RemoveResult ==
    [][last'.op = "removeFile" => last'.ret = ResolvesToFile(nodes, last'.fullPath)]_vars

C10_Witness ==
    /\ last.op = "removeFile" /\ ~last.ret
    /\ findFileNode(nodes, last.fullPath) # NullPtr
    /\ last.fullPath # <<SEP>>

----------------------------------------------------------------------------
(* A CompressedInvertedList on its own, fed arbitrary identifiers *)

ListIds == 1..MaxListId

ListAddFileId ==
    /\ \E fileId \in ListIds :
          /\ sortedFileIds' = addFileId(sortedFileIds, fileId)
          /\ last' = [op |-> "addFileId", fileId |-> fileId]
    /\ UNCHANGED <<store, assigned, threadVars>>

ListRemoveFileId ==
    /\ \E fileId \in ListIds :
          /\ sortedFileIds' = removeFileId(sortedFileIds, fileId)
          /\ last' = [op |-> "removeFileId", fileId |-> fileId]
    /\ UNCHANGED <<store, assigned, threadVars>>

NextList == ListAddFileId \/ ListRemoveFileId

SpecList == Init /\ [][NextList]_vars

\* C7: the posting list is strictly increasing after any sequence of inserts
\* and removes; inserting an identifier it holds and removing one it does not
\* hold leave it unchanged
C7_PostingListSorted ==
    /\ StrictlyIncreasing(sortedFileIds)
    /\ \A fileId \in ListIds :
          /\ fileId \in Range(sortedFileIds)
                => addFileId(sortedFileIds, fileId) = sortedFileIds
          /\ fileId \notin Range(sortedFileIds)
                => removeFileId(sortedFileIds, fileId) = sortedFileIds

C7_Witness ==
    /\ Len(sortedFileIds) >= 3
    /\ last.op = "addFileId"
    /\ last.fileId = sortedFileIds[2]

----------------------------------------------------------------------------
(* The concurrent specification: each thread runs one call at a time, a     *)
(* step at a time; the steps of different threads interleave as the two     *)
(* mutexes allow                                                            *)

\* the arguments the threads call with
ThreadPaths == { <<SEP>>, <<"a">> }
ThreadAttrs == { <<".jpg", 1, "u1", "t1">>, <<".png", 2, "u1", "t2">> }
ThreadFullPaths == { <<SEP>>, <<SEP, "a">>, <<SEP, "b">> }
ThreadExts == { ".jpg" }
ThreadOwners == { "u1" }
ThreadRanges == { <<1, 2>> }

\* the steps of addFile before its identifier is taken
AddBeforeId == {"add_lock", "add_path", "add_readId", "add_incId"}

\* the steps of addFile after its identifier is taken
AddAfterId == {"add_attach", "add_indexLock", "add_index", "add_indexSize",
               "add_indexOwner", "add_indexTime", "add_indexUnlock", "add_return"}

Goto(t, step) == pc' = [pc EXCEPT ![t] = step]

\* a thread calls addFile
CallAdd(t) ==
    /\ pc[t] = "idle"
    /\ Len(assigned) + Cardinality({u \in Threads : pc[u] \in AddBeforeId}) < MaxFiles
    /\ \E path \in ThreadPaths, fileName \in Names, attrs \in ThreadAttrs :
          frame' = [frame EXCEPT ![t] =
                       [op |-> "addFile", path |-> path, fileName |-> fileName,
                        extension |-> attrs[1], fileSize |-> attrs[2],
                        owner |-> attrs[3], createTime |-> attrs[4]]]
    /\ Goto(t, "add_lock")
    /\ UNCHANGED <<store, last, assigned, sortedFileIds, treeMetadataMutex, indexMutex>>

\* faulty variant of AddLock: the lock is taken in shared mode
AddLockShared(t) ==
    /\ pc[t] = "add_lock"
    /\ CanLockShared(treeMetadataMutex)
    /\ treeMetadataMutex' = LockShared(treeMetadataMutex, t)
    /\ Goto(t, "add_path")
    /\ UNCHANGED <<store, last, assigned, sortedFileIds, indexMutex, frame>>

\* unique_lock<shared_mutex> lock(treeMetadataMutex)
AddLock(t) ==
    /\ pc[t] = "add_lock"
    /\ CanLockUnique(treeMetadataMutex)
    /\ treeMetadataMutex' = LockUnique(treeMetadataMutex, t)
    /\ Goto(t, "add_path")
    /\ UNCHANGED <<store, last, assigned, sortedFileIds, indexMutex, frame>>

\* auto pathNode = getOrCreatePath(path); if (!pathNode) return false;
AddPath(t) ==
    /\ pc[t] = "add_path"
    /\ LET r == getOrCreatePath(nodes, frame[t].path)
       IN  IF r.node = NullPtr
           THEN /\ treeMetadataMutex' = Unlock(treeMetadataMutex, t)
                /\ frame' = [frame EXCEPT ![t] = NoFrame]
                /\ Goto(t, "idle")
                /\ UNCHANGED nodes
           ELSE /\ nodes' = r.nodes
                /\ frame' = [frame EXCEPT ![t] =
                                [k \in DOMAIN @ \cup {"pathNode"} |->
                                    IF k = "pathNode" THEN Deref(r.node) ELSE @[k]]]
                /\ Goto(t, "add_readId")
                /\ UNCHANGED treeMetadataMutex
    /\ UNCHANGED <<fileMetadataMap, extensionIndex, sizeIndex, ownerIndex, timeIndex,
                   nextFileId, last, assigned, sortedFileIds, indexMutex>>

\* int fileId = nextFileId++: the read of nextFileId
AddReadId(t) ==
    /\ pc[t] = "add_readId"
    /\ frame' = [frame EXCEPT ![t] =
                    [k \in DOMAIN @ \cup {"fileId"} |->
                        IF k = "fileId" THEN nextFileId ELSE @[k]]]
    /\ Goto(t, "add_incId")
    /\ UNCHANGED <<store, last, assigned, sortedFileIds, treeMetadataMutex, indexMutex>>

\* int fileId = nextFileId++: the write of nextFileId
AddIncId(t) ==
    /\ pc[t] = "add_incId"
    /\ nextFileId' = frame[t].fileId + 1
    /\ assigned' = Append(assigned, frame[t].fileId)
    /\ Goto(t, "add_attach")
    /\ UNCHANGED <<nodes, fileMetadataMap, extensionIndex, sizeIndex, ownerIndex,
                   timeIndex, last, sortedFileIds, treeMetadataMutex, indexMutex, frame>>

\* the record of the add thread t is in
FrameFile(t) ==
    FileMetadata(frame[t].fileId, frame[t].fileName, frame[t].extension,
                 frame[t].fileSize, frame[t].owner, frame[t].createTime,
                 FullPath(frame[t].path, frame[t].fileName))

\* the file node is built and attached, the record enters the flat table
AddAttach(t) ==
    /\ pc[t] = "add_attach"
    /\ LET fileData == FrameFile(t)
           fileNode == [DirectoryNode(frame[t].fileName, FALSE) EXCEPT
                           !.fileData = Ptr(fileData), !.parent = Ptr(frame[t].pathNode)]
       IN  /\ nodes' = AttachFile(nodes, frame[t].pathNode, frame[t].fileName, fileNode)
           /\ fileMetadataMap' = MapPut(fileMetadataMap, frame[t].fileId, fileData)
    /\ Goto(t, "add_indexLock")
    /\ UNCHANGED <<extensionIndex, sizeIndex, ownerIndex, timeIndex, nextFileId, last,
                   assigned, sortedFileIds, treeMetadataMutex, indexMutex, frame>>

\* faulty variant of AddIndexLock: indexMutex is taken in shared mode
AddIndexLockShared(t) ==
    /\ pc[t] = "add_indexLock"
    /\ CanLockShared(indexMutex)
    /\ indexMutex' = LockShared(indexMutex, t)
    /\ Goto(t, "add_index")
    /\ UNCHANGED <<store, last, assigned, sortedFileIds, treeMetadataMutex, frame>>

\* InvertedIndex::addFile: unique_lock<shared_mutex> lock(indexMutex)
AddIndexLock(t) ==
    /\ pc[t] = "add_indexLock"
    /\ CanLockUnique(indexMutex)
    /\ indexMutex' = LockUnique(indexMutex, t)
    /\ Goto(t, "add_index")
    /\ UNCHANGED <<store, last, assigned, sortedFileIds, treeMetadataMutex, frame>>

\* one statement of InvertedIndex::addFile or InvertedIndex::removeFile, run
\* with indexMutex held: the four indexes become ext, size, owner and time
IndexStep(t, from, to, ext, size, owner, time) ==
    /\ pc[t] = from
    /\ extensionIndex' = ext
    /\ sizeIndex' = size
    /\ ownerIndex' = owner
    /\ timeIndex' = time
    /\ Goto(t, to)
    /\ UNCHANGED <<nodes, fileMetadataMap, nextFileId, last, assigned, sortedFileIds,
                   treeMetadataMutex, indexMutex, frame>>

\* extensionIndex[file.extension].addFileId(file.fileId)
AddIndexExtension(t) ==
    IndexStep(t, "add_index", "add_indexSize",
              IndexAdd(extensionIndex, FrameFile(t).extension, FrameFile(t).fileId),
              sizeIndex, ownerIndex, timeIndex)

\* sizeIndex[file.fileSize].addFileId(file.fileId)
AddIndexSize(t) ==
    IndexStep(t, "add_indexSize", "add_indexOwner", extensionIndex,
              IndexAdd(sizeIndex, FrameFile(t).fileSize, FrameFile(t).fileId),
              ownerIndex, timeIndex)

\* ownerIndex[file.owner].addFileId(file.fileId)
AddIndexOwner(t) ==
    IndexStep(t, "add_indexOwner", "add_indexTime", extensionIndex, sizeIndex,
              IndexAdd(ownerIndex, FrameFile(t).owner, FrameFile(t).fileId),
              timeIndex)

\* faulty variant of AddIndexTime: the statement inserts nothing
AddIndexTimeSkipped(t) ==
    IndexStep(t, "add_indexTime", "add_indexUnlock", extensionIndex, sizeIndex,
              ownerIndex, timeIndex)

\* timeIndex[file.createTime].addFileId(file.fileId)
AddIndexTime(t) ==
    IndexStep(t, "add_indexTime", "add_indexUnlock", extensionIndex, sizeIndex,
              ownerIndex,
              IndexAdd(timeIndex, FrameFile(t).createTime, FrameFile(t).fileId))

\* InvertedIndex::addFile: the four insertions, one statement at a time
AddIndex(t) ==
    \/ AddIndexExtension(t)
    \/ AddIndexSize(t)
    \/ AddIndexOwner(t)
    \/ AddIndexTime(t)

\* InvertedIndex::addFile returns: indexMutex is released
AddIndexUnlock(t) ==
    /\ pc[t] = "add_indexUnlock"
    /\ indexMutex' = Unlock(indexMutex, t)
    /\ Goto(t, "add_return")
    /\ UNCHANGED <<store, last, assigned, sortedFileIds, treeMetadataMutex, frame>>

\* return true: treeMetadataMutex is released
AddReturn(t) ==
    /\ pc[t] = "add_return"
    /\ treeMetadataMutex' = Unlock(treeMetadataMutex, t)
    /\ frame' = [frame EXCEPT ![t] = NoFrame]
    /\ Goto(t, "idle")
    /\ UNCHANGED <<store, last, assigned, sortedFileIds, indexMutex>>

\* a thread calls removeFile
CallRemove(t) ==
    /\ pc[t] = "idle"
    /\ \E fullPath \in ThreadFullPaths :
          frame' = [frame EXCEPT ![t] = [op |-> "removeFile", fullPath |-> fullPath]]
    /\ Goto(t, "remove_lock")
    /\ UNCHANGED <<store, last, assigned, sortedFileIds, treeMetadataMutex, indexMutex>>

\* unique_lock<shared_mutex> lock(treeMetadataMutex)
RemoveLock(t) ==
    /\ pc[t] = "remove_lock"
    /\ CanLockUnique(treeMetadataMutex)
    /\ treeMetadataMutex' = LockUnique(treeMetadataMutex, t)
    /\ Goto(t, "remove_find")
    /\ UNCHANGED <<store, last, assigned, sortedFileIds, indexMutex, frame>>

\* faulty variant of RemoveFind: the record is erased from the flat table
\* without being deregistered from the indexes first
RemoveFindSkipIndex(t) ==
    /\ pc[t] = "remove_find"
    /\ IF ~removeFileReturns(nodes, frame[t].fullPath)
       THEN /\ treeMetadataMutex' = Unlock(treeMetadataMutex, t)
            /\ frame' = [frame EXCEPT ![t] = NoFrame]
            /\ Goto(t, "idle")
       ELSE LET fileNode == Deref(findFileNode(nodes, frame[t].fullPath))
            IN  /\ frame' = [frame EXCEPT ![t] =
                                [op |-> "removeFile", fullPath |-> @.fullPath,
                                 fileNode |-> fileNode,
                                 fileData |-> nodes[fileNode].fileData]]
                /\ Goto(t, IF nodes[fileNode].fileData # NullPtr
                           THEN "remove_erase" ELSE "remove_detach")
                /\ UNCHANGED treeMetadataMutex
    /\ UNCHANGED <<store, last, assigned, sortedFileIds, indexMutex>>

\* auto fileNode = findFileNode(fullPath);
\* if (!fileNode || fileNode->isDirectory) return false;
RemoveFind(t) ==
    /\ pc[t] = "remove_find"
    /\ IF ~removeFileReturns(nodes, frame[t].fullPath)
       THEN /\ treeMetadataMutex' = Unlock(treeMetadataMutex, t)
            /\ frame' = [frame EXCEPT ![t] = NoFrame]
            /\ Goto(t, "idle")
       ELSE LET fileNode == Deref(findFileNode(nodes, frame[t].fullPath))
            IN  /\ frame' = [frame EXCEPT ![t] =
                                [op |-> "removeFile", fullPath |-> @.fullPath,
                                 fileNode |-> fileNode,
                                 fileData |-> nodes[fileNode].fileData]]
                /\ Goto(t, IF nodes[fileNode].fileData # NullPtr
                           THEN "remove_indexLock" ELSE "remove_detach")
                /\ UNCHANGED treeMetadataMutex
    /\ UNCHANGED <<store, last, assigned, sortedFileIds, indexMutex>>

\* InvertedIndex::removeFile: unique_lock<shared_mutex> lock(indexMutex)
RemoveIndexLock(t) ==
    /\ pc[t] = "remove_indexLock"
    /\ CanLockUnique(indexMutex)
    /\ indexMutex' = LockUnique(indexMutex, t)
    /\ Goto(t, "remove_index")
    /\ UNCHANGED <<store, last, assigned, sortedFileIds, treeMetadataMutex, frame>>

\* the record of the remove thread t is in
FrameFileData(t) == Deref(frame[t].fileData)

\* extensionIndex[file.extension].removeFileId(file.fileId)
RemoveIndexExtension(t) ==
    IndexStep(t, "remove_index", "remove_indexExtensionErase",
              IndexRemoveFileId(extensionIndex, FrameFileData(t).extension,
                                FrameFileData(t).fileId),
              sizeIndex, ownerIndex, timeIndex)

\* if (extensionIndex[file.extension].empty()) extensionIndex.erase(file.extension)
RemoveIndexExtensionErase(t) ==
    IndexStep(t, "remove_indexExtensionErase", "remove_indexSize",
              IndexEraseEmpty(extensionIndex, FrameFileData(t).extension),
              sizeIndex, ownerIndex, timeIndex)

\* sizeIndex[file.fileSize].removeFileId(file.fileId)
RemoveIndexSize(t) ==
    IndexStep(t, "remove_indexSize", "remove_indexSizeErase", extensionIndex,
              IndexRemoveFileId(sizeIndex, FrameFileData(t).fileSize,
                                FrameFileData(t).fileId),
              ownerIndex, timeIndex)

\* if (sizeIndex[file.fileSize].empty()) sizeIndex.erase(file.fileSize)
RemoveIndexSizeErase(t) ==
    IndexStep(t, "remove_indexSizeErase", "remove_indexOwner", extensionIndex,
              IndexEraseEmpty(sizeIndex, FrameFileData(t).fileSize),
              ownerIndex, timeIndex)

\* ownerIndex[file.owner].removeFileId(file.fileId)
RemoveIndexOwner(t) ==
    IndexStep(t, "remove_indexOwner", "remove_indexOwnerErase", extensionIndex,
              sizeIndex,
              IndexRemoveFileId(ownerIndex, FrameFileData(t).owner,
                                FrameFileData(t).fileId),
              timeIndex)

\* if (ownerIndex[file.owner].empty()) ownerIndex.erase(file.owner)
RemoveIndexOwnerErase(t) ==
    IndexStep(t, "remove_indexOwnerErase", "remove_indexTime", extensionIndex,
              sizeIndex, IndexEraseEmpty(ownerIndex, FrameFileData(t).owner),
              timeIndex)

\* timeIndex[file.createTime].removeFileId(file.fileId)
RemoveIndexTime(t) ==
    IndexStep(t, "remove_indexTime", "remove_indexTimeErase", extensionIndex,
              sizeIndex, ownerIndex,
              IndexRemoveFileId(timeIndex, FrameFileData(t).createTime,
                                FrameFileData(t).fileId))

\* if (timeIndex[file.createTime].empty()) timeIndex.erase(file.createTime)
RemoveIndexTimeErase(t) ==
    IndexStep(t, "remove_indexTimeErase", "remove_indexUnlock", extensionIndex,
              sizeIndex, ownerIndex,
              IndexEraseEmpty(timeIndex, FrameFileData(t).createTime))

\* InvertedIndex::removeFile: the four removals, one statement at a time
RemoveIndex(t) ==
    \/ RemoveIndexExtension(t)
    \/ RemoveIndexExtensionErase(t)
    \/ RemoveIndexSize(t)
    \/ RemoveIndexSizeErase(t)
    \/ RemoveIndexOwner(t)
    \/ RemoveIndexOwnerErase(t)
    \/ RemoveIndexTime(t)
    \/ RemoveIndexTimeErase(t)

\* InvertedIndex::removeFile returns: indexMutex is released
RemoveIndexUnlock(t) ==
    /\ pc[t] = "remove_indexUnlock"
    /\ indexMutex' = Unlock(indexMutex, t)
    /\ Goto(t, "remove_erase")
    /\ UNCHANGED <<store, last, assigned, sortedFileIds, treeMetadataMutex, frame>>

\* fileMetadataMap.erase(fileData->fileId)
RemoveErase(t) ==
    /\ pc[t] = "remove_erase"
    /\ fileMetadataMap' = MapErase(fileMetadataMap, Deref(frame[t].fileData).fileId)
    /\ Goto(t, "remove_detach")
    /\ UNCHANGED <<nodes, extensionIndex, sizeIndex, ownerIndex, timeIndex, nextFileId,
                   last, assigned, sortedFileIds, treeMetadataMutex, indexMutex, frame>>

\* the node is erased from its parent; return true releases treeMetadataMutex
RemoveDetach(t) ==
    /\ pc[t] = "remove_detach"
    /\ nodes' = DetachFile(nodes, frame[t].fileNode)
    /\ treeMetadataMutex' = Unlock(treeMetadataMutex, t)
    /\ frame' = [frame EXCEPT ![t] = NoFrame]
    /\ Goto(t, "idle")
    /\ UNCHANGED <<fileMetadataMap, extensionIndex, sizeIndex, ownerIndex, timeIndex,
                   nextFileId, last, assigned, sortedFileIds, indexMutex>>

\* a thread calls one of the indexed queries
CallQuery(t) ==
    /\ pc[t] = "idle"
    /\ \/ \E ext \in ThreadExts :
             frame' = [frame EXCEPT ![t] =
                          [op |-> "queryByExtensionIndexed", ext |-> ext]]
       \/ \E owner \in ThreadOwners :
             frame' = [frame EXCEPT ![t] =
                          [op |-> "queryByOwnerIndexed", owner |-> owner]]
       \/ \E range \in ThreadRanges :
             frame' = [frame EXCEPT ![t] =
                          [op |-> "queryBySizeRangeIndexed",
                           minSize |-> range[1], maxSize |-> range[2]]]
    /\ Goto(t, "query_indexLock")
    /\ UNCHANGED <<store, last, assigned, sortedFileIds, treeMetadataMutex, indexMutex>>

\* InvertedIndex::queryBy...: shared_lock<shared_mutex> lock(indexMutex)
QueryIndexLock(t) ==
    /\ pc[t] = "query_indexLock"
    /\ CanLockShared(indexMutex)
    /\ indexMutex' = LockShared(indexMutex, t)
    /\ Goto(t, "query_index")
    /\ UNCHANGED <<store, last, assigned, sortedFileIds, treeMetadataMutex, frame>>

\* the identifiers the index holds for the query of thread t
QueryFileIds(t) ==
    CASE frame[t].op = "queryByExtensionIndexed" -> queryByExtension(frame[t].ext)
      [] frame[t].op = "queryByOwnerIndexed" -> queryByOwner(frame[t].owner)
      [] frame[t].op = "queryBySizeRangeIndexed" ->
            queryBySizeRange(frame[t].minSize, frame[t].maxSize)

\* faulty variant of QueryIndex: indexMutex stays held through the resolve phase
QueryIndexKeepLock(t) ==
    /\ pc[t] = "query_index"
    /\ frame' = [frame EXCEPT ![t] =
                    [k \in DOMAIN @ \cup {"fileIds"} |->
                        IF k = "fileIds" THEN QueryFileIds(t) ELSE @[k]]]
    /\ Goto(t, "query_lock")
    /\ UNCHANGED <<store, last, assigned, sortedFileIds, treeMetadataMutex, indexMutex>>

\* auto fileIds = invertedIndex.queryBy...(...): the identifiers are copied
\* out and indexMutex is released when the index's query returns
QueryIndex(t) ==
    /\ pc[t] = "query_index"
    /\ frame' = [frame EXCEPT ![t] =
                    [k \in DOMAIN @ \cup {"fileIds"} |->
                        IF k = "fileIds" THEN QueryFileIds(t) ELSE @[k]]]
    /\ indexMutex' = Unlock(indexMutex, t)
    /\ Goto(t, "query_lock")
    /\ UNCHANGED <<store, last, assigned, sortedFileIds, treeMetadataMutex>>

\* faulty variant of QueryLock: the resolve phase runs without the lock
QueryLockSkipped(t) ==
    /\ pc[t] = "query_lock"
    /\ Goto(t, "query_resolve")
    /\ UNCHANGED <<store, last, assigned, sortedFileIds, treeMetadataMutex, indexMutex,
                   frame>>

\* shared_lock<shared_mutex> lock(treeMetadataMutex)
QueryLock(t) ==
    /\ pc[t] = "query_lock"
    /\ CanLockShared(treeMetadataMutex)
    /\ treeMetadataMutex' = LockShared(treeMetadataMutex, t)
    /\ Goto(t, "query_resolve")
    /\ UNCHANGED <<store, last, assigned, sortedFileIds, indexMutex, frame>>

\* the loop over fileIds fills result
QueryResolve(t) ==
    /\ pc[t] = "query_resolve"
    /\ frame' = [frame EXCEPT ![t] =
                    [k \in DOMAIN @ \cup {"result"} |->
                        IF k = "result" THEN Resolve(fileMetadataMap, frame[t].fileIds)
                        ELSE @[k]]]
    /\ Goto(t, "query_return")
    /\ UNCHANGED <<store, last, assigned, sortedFileIds, treeMetadataMutex, indexMutex>>

\* return result: treeMetadataMutex is released
QueryReturn(t) ==
    /\ pc[t] = "query_return"
    /\ treeMetadataMutex' = Unlock(treeMetadataMutex, t)
    /\ frame' = [frame EXCEPT ![t] = NoFrame]
    /\ Goto(t, "idle")
    /\ UNCHANGED <<store, last, assigned, sortedFileIds, indexMutex>>

\* a thread calls queryByExtensionTraditional
CallTraditional(t) ==
    /\ pc[t] = "idle"
    /\ \E ext \in ThreadExts :
          frame' = [frame EXCEPT ![t] =
                       [op |-> "queryByExtensionTraditional", ext |-> ext]]
    /\ Goto(t, "traditional_lock")
    /\ UNCHANGED <<store, last, assigned, sortedFileIds, treeMetadataMutex, indexMutex>>

\* shared_lock<shared_mutex> lock(treeMetadataMutex)
TraditionalLock(t) ==
    /\ pc[t] = "traditional_lock"
    /\ CanLockShared(treeMetadataMutex)
    /\ treeMetadataMutex' = LockShared(treeMetadataMutex, t)
    /\ Goto(t, "traditional_traverse")
    /\ UNCHANGED <<store, last, assigned, sortedFileIds, indexMutex, frame>>

\* traverseAndFilter(root, ...) fills result
TraditionalTraverse(t) ==
    /\ pc[t] = "traditional_traverse"
    /\ frame' = [frame EXCEPT ![t] =
                    [k \in DOMAIN @ \cup {"result"} |->
                        IF k = "result" THEN queryByExtensionTraditional(frame[t].ext)
                        ELSE @[k]]]
    /\ Goto(t, "traditional_return")
    /\ UNCHANGED <<store, last, assigned, sortedFileIds, treeMetadataMutex, indexMutex>>

\* faulty variant of TraditionalReturn: the lock is not released
TraditionalReturnKeepLock(t) ==
    /\ pc[t] = "traditional_return"
    /\ frame' = [frame EXCEPT ![t] = NoFrame]
    /\ Goto(t, "idle")
    /\ UNCHANGED <<store, last, assigned, sortedFileIds, treeMetadataMutex, indexMutex>>

\* return result: treeMetadataMutex is released
TraditionalReturn(t) ==
    /\ pc[t] = "traditional_return"
    /\ treeMetadataMutex' = Unlock(treeMetadataMutex, t)
    /\ frame' = [frame EXCEPT ![t] = NoFrame]
    /\ Goto(t, "idle")
    /\ UNCHANGED <<store, last, assigned, sortedFileIds, indexMutex>>

NextThreads ==
    \E t \in Threads :
        \/ CallAdd(t)
        \/ AddLock(t)
        \/ AddPath(t)
        \/ AddReadId(t)
        \/ AddIncId(t)
        \/ AddAttach(t)
        \/ AddIndexLock(t)
        \/ AddIndex(t)
        \/ AddIndexUnlock(t)
        \/ AddReturn(t)
        \/ CallRemove(t)
        \/ RemoveLock(t)
        \/ RemoveFind(t)
        \/ RemoveIndexLock(t)
        \/ RemoveIndex(t)
        \/ RemoveIndexUnlock(t)
        \/ RemoveErase(t)
        \/ RemoveDetach(t)
        \/ CallQuery(t)
        \/ QueryIndexLock(t)
        \/ QueryIndex(t)
        \/ QueryLock(t)
        \/ QueryResolve(t)
        \/ QueryReturn(t)
        \/ CallTraditional(t)
        \/ TraditionalLock(t)
        \/ TraditionalTraverse(t)
        \/ TraditionalReturn(t)

SpecThreads == Init /\ [][NextThreads]_vars

\* the lock acquisitions of thread t
Acquire(t) ==
    \/ AddLock(t)
    \/ AddIndexLock(t)
    \/ RemoveLock(t)
    \/ RemoveIndexLock(t)
    \/ QueryIndexLock(t)
    \/ QueryLock(t)
    \/ TraditionalLock(t)

\* the steps of thread t inside a call that wait for nothing
Proceed(t) ==
    \/ AddPath(t)
    \/ AddReadId(t)
    \/ AddIncId(t)
    \/ AddAttach(t)
    \/ AddIndex(t)
    \/ AddIndexUnlock(t)
    \/ AddReturn(t)
    \/ RemoveFind(t)
    \/ RemoveIndex(t)
    \/ RemoveIndexUnlock(t)
    \/ RemoveErase(t)
    \/ RemoveDetach(t)
    \/ QueryIndex(t)
    \/ QueryResolve(t)
    \/ QueryReturn(t)
    \/ TraditionalTraverse(t)
    \/ TraditionalReturn(t)

\* the calls of the fair specification: every operation, with one argument
\* list for add and one for remove (whether a call returns does not depend on
\* its arguments: no step of a call loops or waits on them)
FairCalls ==
    \A t \in Threads :
        /\ frame[t].op = "addFile" =>
              /\ frame[t].path = <<SEP>>
              /\ frame[t].fileName = <<"a">>
              /\ frame[t].extension = ".jpg"
        /\ frame[t].op = "removeFile" => frame[t].fullPath = <<SEP, "a">>

NextThreadsFair ==
    \E t \in Threads :
        \/ CallAdd(t) /\ FairCalls'
        \/ CallRemove(t) /\ FairCalls'
        \/ CallQuery(t)
        \/ CallTraditional(t)
        \/ Acquire(t)
        \/ Proceed(t)

\* Fair scheduling: a thread inside a call keeps running, and a thread that
\* waits for a mutex which becomes free again and again is granted it.  Making
\* a call is left to the thread
SpecThreadsFair ==
    /\ Init
    /\ [][NextThreadsFair]_vars
    /\ \A t \in Threads : WF_vars(Proceed(t)) /\ SF_vars(Acquire(t))

\* C8: the identifiers adds take are strictly increasing in the order the adds
\* take them, hence never reused, also after removes and with adds of
\* concurrent threads; the records of the flat table carry their own key
C8_IdentifiersIncrease ==
    /\ StrictlyIncreasing(assigned)
    /\ \A id \in DOMAIN fileMetadataMap :
          fileMetadataMap[id].fileId = id /\ id \in Range(assigned)
    /\ \A t \in Threads :
          pc[t] \in AddAfterId
              => frame[t].fileId \notin DOMAIN fileMetadataMap
                 \/ fileMetadataMap[frame[t].fileId] = FrameFile(t)

C8_Witness ==
    /\ Len(assigned) = MaxFiles
    /\ Cardinality(DOMAIN fileMetadataMap) < Len(assigned)
    /\ \E t \in Threads : pc[t] = "add_return"
    /\ \E t \in Threads : pc[t] = "remove_lock"

----------------------------------------------------------------------------
(* Locking discipline *)

\* the threads that hold mutex m, in either mode
Holders(m) == m.exclusive \cup m.shared

\* thread t is at a lock acquisition that the mutex does not grant now
Blocked(t) ==
    \/ pc[t] \in {"add_lock", "remove_lock"} /\ ~CanLockUnique(treeMetadataMutex)
    \/ pc[t] \in {"add_indexLock", "remove_indexLock"} /\ ~CanLockUnique(indexMutex)
    \/ pc[t] = "query_indexLock" /\ ~CanLockShared(indexMutex)
    \/ pc[t] \in {"query_lock", "traditional_lock"}
          /\ ~CanLockShared(treeMetadataMutex)

\* some call is in progress and every call in progress is blocked
Deadlock ==
    /\ \E t \in Threads : pc[t] # "idle"
    /\ \A t \in Threads : pc[t] # "idle" => Blocked(t)

\* C11: no step acquires treeMetadataMutex while its thread holds indexMutex,
\* so a thread holding both took treeMetadataMutex first; and no reachable
\* state is a deadlock: some call in progress can always take a step
C11_LockOrder ==
    /\ [][\A t \in Threads :
              (t \notin Holders(treeMetadataMutex) /\ t \in Holders(treeMetadataMutex)')
                  => t \notin Holders(indexMutex)]_vars
    /\ [](~Deadlock)

C11_Witness ==
    \E t, u \in Threads :
        /\ t \in Holders(treeMetadataMutex) /\ t \in Holders(indexMutex)
        /\ pc[u] = "query_indexLock" /\ Blocked(u)

----------------------------------------------------------------------------
(* The two phases of an indexed query *)

\* the identifiers of a sequence of records, in order
IdsOf(result) == [i \in 1..Len(result) |-> result[i].fileId]

\* identifier id is in no posting list of any index
InNoIndex(id) ==
    /\ KeysHolding(extensionIndex, id) = {}
    /\ KeysHolding(sizeIndex, id) = {}
    /\ KeysHolding(ownerIndex, id) = {}
    /\ KeysHolding(timeIndex, id) = {}

\* C12: an indexed query is not an atomic snapshot.  Its result is the
\* identifiers it read from the index, in order, less those the flat table no
\* longer holds when it resolves them; an identifier it read and omits is one
\* whose remove completed between the two phases (it is in no index and not in
\* the flat table any more); the witness is such an omission
C12_OmissionByRemoveBetweenPhases ==
    \A t \in Threads : pc[t] = "query_return" =>
        LET fetched == frame[t].fileIds
            result == frame[t].result
        IN  /\ IdsOf(result)
                  = SelectSeq(fetched, LAMBDA id : id \in DOMAIN fileMetadataMap)
            /\ \A i \in 1..Len(result) :
                  result[i] = fileMetadataMap[result[i].fileId]
            /\ \A id \in Range(fetched) \ Range(IdsOf(result)) :
                  /\ id \in Range(assigned)
                  /\ id \notin DOMAIN fileMetadataMap
                  /\ InNoIndex(id)

C12_Witness ==
    \E t \in Threads :
        /\ pc[t] = "query_return"
        /\ Len(frame[t].fileIds) = 2
        /\ IdsOf(frame[t].result) = <<frame[t].fileIds[2]>>

----------------------------------------------------------------------------
(* What a reader of the index sees *)

\* identifier id is in a posting list of each of the four indexes
InAllIndexes(id) ==
    /\ KeysHolding(extensionIndex, id) # {}
    /\ KeysHolding(sizeIndex, id) # {}
    /\ KeysHolding(ownerIndex, id) # {}
    /\ KeysHolding(timeIndex, id) # {}

\* C13: whenever a reader holds indexMutex in shared mode, every identifier
\* is in the posting lists of all four indexes or of none: registering and
\* deregistering a record are atomic to the readers of the index
C13_RegistrationAtomicToReaders ==
    indexMutex.shared # {} =>
        \A id \in 1..MaxFiles : InAllIndexes(id) \/ InNoIndex(id)

C13_Witness ==
    /\ \E t \in Threads : pc[t] = "query_index" /\ t \in indexMutex.shared
    /\ \E u \in Threads : pc[u] \in {"add_indexLock", "remove_indexLock"}
    /\ \E id \in 1..MaxFiles : InAllIndexes(id)

----------------------------------------------------------------------------
(* Queries that match nothing *)

\* attribute values that records carry and values that none carries
QueryExts == Exts \cup {".gif"}
QueryOwners == {"u1", "u2", "u3"}
QueryTimes == {"t1", "t2", "t3"}

\* C14: an exact-match query for a value that has no index entry returns the
\* empty result, and a size-range query whose range holds no registered size,
\* a range with min > max included, returns, and returns the empty result
C14_QueriesNeverFail ==
    /\ \A ext \in QueryExts : ext \notin DOMAIN extensionIndex =>
          queryByExtension(ext) = <<>> /\ queryByExtensionIndexed(ext) = <<>>
    /\ \A owner \in QueryOwners : owner \notin DOMAIN ownerIndex =>
          queryByOwner(owner) = <<>> /\ queryByOwnerIndexed(owner) = <<>>
    /\ \A time \in QueryTimes : time \notin DOMAIN timeIndex =>
          queryByTime(time) = <<>>
    /\ \A minSize \in Sizes, maxSize \in Sizes :
          {k \in DOMAIN sizeIndex : minSize <= k /\ k <= maxSize} = {} =>
              queryBySizeRangeOutcomes(minSize, maxSize)
                  = {[returns |-> TRUE, fileIds |-> <<>>]}

----------------------------------------------------------------------------
(* Conflicting accesses *)

\* the steps that write the tree, the flat table or nextFileId, and the steps
\* that read them
TreeWriteSteps == {"add_path", "add_incId", "add_attach", "remove_erase",
                   "remove_detach"}
TreeReadSteps == {"add_path", "add_readId", "remove_find", "query_resolve",
                  "traditional_traverse"}

\* the steps that write an index, and the steps that read one
IndexWriteSteps == {"add_index", "add_indexSize", "add_indexOwner", "add_indexTime",
                    "remove_index", "remove_indexExtensionErase",
                    "remove_indexSize", "remove_indexSizeErase",
                    "remove_indexOwner", "remove_indexOwnerErase",
                    "remove_indexTime", "remove_indexTimeErase"}
IndexReadSteps == {"query_index"}

\* C15: no data race: while a thread is at a step that writes the tree, the
\* flat table or nextFileId, no other thread is at a step that reads or writes
\* them, and while a thread is at a step that writes an index, no other thread
\* is at a step that reads or writes an index
C15_NoDataRace ==
    \A t \in Threads : \A u \in Threads \ {t} :
        /\ pc[t] \in TreeWriteSteps
              => pc[u] \notin TreeWriteSteps \cup TreeReadSteps
        /\ pc[t] \in IndexWriteSteps
              => pc[u] \notin IndexWriteSteps \cup IndexReadSteps

C15_Witness ==
    \E t \in Threads : \E u \in Threads \ {t} :
        /\ pc[t] = "add_attach"
        /\ pc[u] = "query_index"
        /\ frame[u].op = "queryByOwnerIndexed"

----------------------------------------------------------------------------
(* Termination *)

----------------------------------------------------------------------------
(* The order of the updates inside add and remove *)

\* the identifiers in the posting lists of an index
IndexedIds(index) == UNION {Range(index[k]) : k \in DOMAIN index}

\* the identifiers in the posting lists of any of the four indexes
AllIndexedIds ==
    IndexedIds(extensionIndex) \cup IndexedIds(sizeIndex)
        \cup IndexedIds(ownerIndex) \cup IndexedIds(timeIndex)

\* every identifier in a posting list of index has a record in the flat table
\* whose attribute attr equals the key of the list
PostingsMatch(index, attr(_)) ==
    \A k \in DOMAIN index : \A id \in Range(index[k]) :
        id \in DOMAIN fileMetadataMap /\ attr(fileMetadataMap[id]) = k

\* C17: a remove deregisters the record from the four indexes, then erases it
\* from the flat table, then detaches the node; an add inserts the record
\* into the flat table before it registers it in an index; hence in every
\* state, the intermediate ones included, every identifier in a posting list
\* has a record in the flat table whose attribute equals the key of the list
C17_UpdateOrder ==
    /\ [][
          /\ \A id \in DOMAIN fileMetadataMap \ DOMAIN fileMetadataMap' :
                InNoIndex(id)
          /\ \A id \in AllIndexedIds' \ AllIndexedIds :
                id \in DOMAIN fileMetadataMap
          /\ \A t \in Threads :
                (pc[t] = "remove_detach" /\ frame[t].fileData # NullPtr
                     /\ nodes' # nodes)
                    => FrameFileData(t).fileId \notin DOMAIN fileMetadataMap
       ]_vars
    /\ [](/\ PostingsMatch(extensionIndex, LAMBDA file : file.extension)
          /\ PostingsMatch(sizeIndex, LAMBDA file : file.fileSize)
          /\ PostingsMatch(ownerIndex, LAMBDA file : file.owner)
          /\ PostingsMatch(timeIndex, LAMBDA file : file.createTime))

C17_Witness ==
    /\ \E t \in Threads :
          /\ pc[t] = "remove_erase"
          /\ FrameFileData(t).fileId \in DOMAIN fileMetadataMap
          /\ InNoIndex(FrameFileData(t).fileId)
    /\ AllIndexedIds # {}

----------------------------------------------------------------------------
(* Adding onto a name the directory already holds *)

\* C18: after a successful add, the directory the path leads to holds under
\* the file name the new file node, which carries the new record and has no
\* children, and the path joined with the name resolves to that node: an add
\* onto a name the directory already held replaces the child it held
C18_LastWriteWins ==
    (last.op = "addFile" /\ last.ret) =>
        LET file == fileMetadataMap[last.fileId]
            pathNode == Deref(getOrCreatePath(nodes, last.path).node)
        IN  /\ getOrCreatePath(nodes, last.path).nodes = nodes
            /\ file.fileName \in DOMAIN nodes[pathNode].children
            /\ LET child == nodes[pathNode].children[file.fileName]
               IN  /\ nodes[child].name = file.fileName
                   /\ ~nodes[child].isDirectory
                   /\ nodes[child].fileData = Ptr(file)
                   /\ nodes[child].children = <<>>
                   /\ nodes[child].parent = Ptr(pathNode)
                   /\ findFileNode(nodes, file.fullPath) = Ptr(child)

C18_Witness ==
    /\ last.op = "addFile" /\ last.ret
    /\ \E id \in DOMAIN fileMetadataMap \ {last.fileId} :
          fileMetadataMap[id].fullPath = fileMetadataMap[last.fileId].fullPath

----------------------------------------------------------------------------
(* Empty posting lists *)

\* index maps some value to an empty posting list
HasEmptyList(index) == \E k \in DOMAIN index : index[k] = <<>>

\* C19: in every state where indexMutex is not held exclusively, none of the
\* four indexes maps a value to an empty posting list
C19_NoEmptyPostingList ==
    indexMutex.exclusive = {} =>
        /\ ~HasEmptyList(extensionIndex)
        /\ ~HasEmptyList(sizeIndex)
        /\ ~HasEmptyList(ownerIndex)
        /\ ~HasEmptyList(timeIndex)

C19_Witness ==
    /\ indexMutex.exclusive = {}
    /\ \E t \in Threads :
          /\ pc[t] = "remove_erase"
          /\ FrameFileData(t).extension \notin DOMAIN extensionIndex
          /\ FrameFileData(t).owner \in DOMAIN ownerIndex

----------------------------------------------------------------------------
(* Directories and files *)

\* C20: every node of the tree is either a directory, which holds no record,
\* or a file, which holds a record and has no children
C20_DirectoryOrFile ==
    \A a \in DOMAIN nodes :
        \/ nodes[a].isDirectory /\ nodes[a].fileData = NullPtr
        \/ /\ ~nodes[a].isDirectory
           /\ nodes[a].fileData # NullPtr
           /\ nodes[a].children = <<>>

----------------------------------------------------------------------------
(* The parent back-reference *)

\* C21: for every node of the tree other than the root, the parent
\* back-reference resolves to the node whose children hold that node under the
\* node's own name
C21_ParentHoldsChild ==
    \A a \in DOMAIN nodes \ {RootAddr} :
        /\ nodes[a].parent # NullPtr
        /\ Deref(nodes[a].parent) \in DOMAIN nodes
        /\ LET parent == nodes[Deref(nodes[a].parent)]
           IN  /\ nodes[a].name \in DOMAIN parent.children
               /\ parent.children[nodes[a].name] = a

C21_Witness ==
    /\ last.op = "removeFile" /\ last.ret
    /\ \E a \in DOMAIN nodes : Len(a) = 2 /\ ~nodes[a].isDirectory
    /\ \E a \in DOMAIN nodes : Len(a) = 1 /\ nodes[a].isDirectory

----------------------------------------------------------------------------
(* Paths with empty segments *)

\* the paths the two walks are compared on: "", "a", "a/a", "/", "//", "/a",
\* "//a", "/a/", "/a/a", "/a//a", "/a/a/", "/a/b", "/b", "/b/a", "/c", "/c/a"
WalkPaths ==
    { <<>>, <<"a">>, <<"a", SEP, "a">>, <<SEP>>, <<SEP, SEP>>, <<SEP, "a">>,
      <<SEP, SEP, "a">>, <<SEP, "a", SEP>>, <<SEP, "a", SEP, "a">>,
      <<SEP, "a", SEP, SEP, "a">>, <<SEP, "a", SEP, "a", SEP>>,
      <<SEP, "a", SEP, "b">>, <<SEP, "b">>, <<SEP, "b", SEP, "a">>,
      <<SEP, "c">>, <<SEP, "c", SEP, "a">> }

RECURSIVE Collapse(_)
\* path with every run of delimiters replaced by one delimiter
Collapse(path) ==
    IF Len(path) <= 1 THEN path
    ELSE IF path[1] = SEP /\ path[2] = SEP THEN Collapse(Tail(path))
    ELSE <<path[1]>> \o Collapse(Tail(path))

\* path without duplicate and trailing delimiters
Normal(path) ==
    LET c == Collapse(path)
    IN  IF Len(c) > 1 /\ c[Len(c)] = SEP THEN SubSeq(c, 1, Len(c) - 1) ELSE c

\* the addresses of the nodes on the way to address a, a included
Prefixes(a) == {SubSeq(a, 1, n) : n \in 0..Len(a)}

\* C22: a path that is empty or does not start with the delimiter is rejected
\* by getOrCreatePath and by findFileNode; paths that differ only by duplicate
\* or trailing delimiters lead both walks to the same node; findFileNode
\* returns the node the segments lead to when every segment is there and
\* nullptr as soon as one is missing; getOrCreatePath creates the missing
\* segments as directories and changes no node that was there
C22_PathWalks ==
    \A p \in WalkPaths :
        IF p = <<>> \/ p[1] # SEP
        THEN /\ getOrCreatePath(nodes, p) = [node |-> NullPtr, nodes |-> nodes]
             /\ findFileNode(nodes, p) = NullPtr
        ELSE LET r == getOrCreatePath(nodes, p)
                 a == Segments(p)
             IN  /\ findFileNode(nodes, p)
                       = IF a \in DOMAIN nodes THEN Ptr(a) ELSE NullPtr
                 /\ r.node = Ptr(a)
                 /\ DOMAIN r.nodes = DOMAIN nodes \cup Prefixes(a)
                 /\ \A b \in DOMAIN r.nodes \ DOMAIN nodes :
                       r.nodes[b].isDirectory /\ r.nodes[b].fileData = NullPtr
                 /\ \A b \in DOMAIN nodes :
                       r.nodes[b] = [nodes[b] EXCEPT !.children = r.nodes[b].children]
                 /\ \A q \in WalkPaths :
                       (q # <<>> /\ q[1] = SEP /\ Normal(q) = Normal(p)) =>
                           /\ findFileNode(nodes, q) = findFileNode(nodes, p)
                           /\ getOrCreatePath(nodes, q) = r

C22_Witness ==
    /\ findFileNode(nodes, <<SEP, "a", SEP, SEP, "a">>) = Ptr(<< <<"a">>, <<"a">> >>)
    /\ findFileNode(nodes, <<SEP, "b", SEP, "a">>) = NullPtr
    /\ findFileNode(nodes, <<SEP, "c", SEP, "a">>) = NullPtr
    /\ <<"b">> \notin DOMAIN nodes[RootAddr].children

----------------------------------------------------------------------------
(* What an indexed query returns *)

\* record file satisfies the predicate of the query thread t is in
Matches(t, file) ==
    CASE frame[t].op = "queryByExtensionIndexed" -> file.extension = frame[t].ext
      [] frame[t].op = "queryByOwnerIndexed" -> file.owner = frame[t].owner
      [] frame[t].op = "queryBySizeRangeIndexed" ->
            frame[t].minSize <= file.fileSize /\ file.fileSize <= frame[t].maxSize

----------------------------------------------------------------------------
(* Calls observed from outside: which calls returned before a query started *)

\* the identifiers whose add has returned and whose record the flat table holds
ReturnedAdds ==
    {id \in DOMAIN fileMetadataMap :
        \A u \in Threads : ~(pc[u] \in AddAfterId /\ frame[u].fileId = id)}

\* history: how many calls of addFile and of removeFile have returned true
SuccessfulAdds == IF "adds" \in DOMAIN last THEN last.adds ELSE 0

SuccessfulRemoves == IF "removes" \in DOMAIN last THEN last.removes ELSE 0

\* a thread calls queryByExtensionIndexed; the frame notes what had returned
\* when the call started: the adds, and the last add or remove that succeeded
CallQueryObserved(t) ==
    /\ pc[t] = "idle"
    /\ \E ext \in ThreadExts :
          frame' = [frame EXCEPT ![t] =
                       [op |-> "queryByExtensionIndexed", ext |-> ext,
                        returnedAtStart |-> ReturnedAdds, lastAtStart |-> last]]
    /\ Goto(t, "query_indexLock")
    /\ UNCHANGED <<store, last, assigned, sortedFileIds, treeMetadataMutex, indexMutex>>

\* addFile returns true, and the return is noted in last
AddReturnObserved(t) ==
    /\ pc[t] = "add_return"
    /\ treeMetadataMutex' = Unlock(treeMetadataMutex, t)
    /\ last' = [op |-> "addFile", path |-> frame[t].path, ret |-> TRUE,
                fileId |-> frame[t].fileId,
                adds |-> SuccessfulAdds + 1, removes |-> SuccessfulRemoves]
    /\ frame' = [frame EXCEPT ![t] = NoFrame]
    /\ Goto(t, "idle")
    /\ UNCHANGED <<store, assigned, sortedFileIds, indexMutex>>

\* removeFile detaches the node and returns true, and the return is noted in last
RemoveDetachObserved(t) ==
    /\ pc[t] = "remove_detach"
    /\ nodes' = DetachFile(nodes, frame[t].fileNode)
    /\ treeMetadataMutex' = Unlock(treeMetadataMutex, t)
    /\ last' = [op |-> "removeFile", fullPath |-> frame[t].fullPath, ret |-> TRUE,
                adds |-> SuccessfulAdds, removes |-> SuccessfulRemoves + 1]
    /\ frame' = [frame EXCEPT ![t] = NoFrame]
    /\ Goto(t, "idle")
    /\ UNCHANGED <<fileMetadataMap, extensionIndex, sizeIndex, ownerIndex, timeIndex,
                   nextFileId, assigned, sortedFileIds, indexMutex>>

NextThreadsObserved ==
    \E t \in Threads :
        \/ CallAdd(t)
        \/ AddLock(t)
        \/ AddPath(t)
        \/ AddReadId(t)
        \/ AddIncId(t)
        \/ AddAttach(t)
        \/ AddIndexLock(t)
        \/ AddIndex(t)
        \/ AddIndexUnlock(t)
        \/ AddReturnObserved(t)
        \/ CallRemove(t)
        \/ RemoveLock(t)
        \/ RemoveFind(t)
        \/ RemoveIndexLock(t)
        \/ RemoveIndex(t)
        \/ RemoveIndexUnlock(t)
        \/ RemoveErase(t)
        \/ RemoveDetachObserved(t)
        \/ CallQueryObserved(t)
        \/ QueryIndexLock(t)
        \/ QueryIndex(t)
        \/ QueryLock(t)
        \/ QueryResolve(t)
        \/ QueryReturn(t)

SpecThreadsObserved == Init /\ [][NextThreadsObserved]_vars

\* some thread is inside a removeFile call whose path addresses fullPath
RemoveStarted(fullPath) ==
    \E u \in Threads :
        /\ frame[u].op = "removeFile"
        /\ Segments(frame[u].fullPath) = Segments(fullPath)

\* the result of the query thread t returns holds every matching record whose
\* add returned before the query started and whose remove has not started
ContainsTheLiveFiles(t) ==
    \A id \in frame[t].returnedAtStart :
        (/\ id \in DOMAIN fileMetadataMap
         /\ fileMetadataMap[id].extension = frame[t].ext
         /\ ~RemoveStarted(fileMetadataMap[id].fullPath))
            => id \in Range(IdsOf(frame[t].result))

\* the result holds no record whose add has not started
ContainsNoLaterFile(t) == Range(IdsOf(frame[t].result)) \subseteq Range(assigned)

\* the result holds no file whose remove returned before the query started:
\* when the call that succeeded last before the query started is a remove of
\* a path, no file added before that remove is returned under this path
ContainsNoRemovedFile(t) ==
    LET before == frame[t].lastAtStart
    IN  (before.op = "removeFile" /\ before.ret) =>
            \A i \in 1..Len(frame[t].result) :
                frame[t].result[i].fileId \in frame[t].returnedAtStart
                    => Segments(frame[t].result[i].fullPath) # Segments(before.fullPath)

\* C24: under every interleaving, the result of an indexed query holds every
\* matching file whose add returned before the query started and whose
\* remove did not start before the query returned, no file whose remove
\* returned before the query started, and no file whose add started after
\* the query returned
C24_QueryContainment ==
    \A t \in Threads : pc[t] = "query_return" =>
        /\ ContainsTheLiveFiles(t)
        /\ ContainsNoRemovedFile(t)
        /\ ContainsNoLaterFile(t)

----------------------------------------------------------------------------
(* What a remove leaves alone *)

\* the file nodes of tree ns that their record's full path resolves to
ResolvableFiles(ns) ==
    {a \in DOMAIN ns :
        /\ ~ns[a].isDirectory
        /\ ns[a].fileData # NullPtr
        /\ findFileNode(ns, Deref(ns[a].fileData).fullPath) = Ptr(a)}

\* C25: a successful remove of one file changes nothing about any other file:
\* every other record stays in the flat table and in its four posting lists,
\* every other file that its full path resolved to is still resolved to, and
\* no directory node is removed
C25_RemoveFrame ==
    [][(last'.op = "removeFile" /\ last'.ret) =>
          LET removed == Deref(findFileNode(nodes, last'.fullPath))
              id == Deref(nodes[removed].fileData).fileId
          IN  /\ \A other \in DOMAIN fileMetadataMap \ {id} :
                    /\ other \in DOMAIN fileMetadataMap'
                    /\ fileMetadataMap'[other] = fileMetadataMap[other]
                    /\ KeysHolding(extensionIndex', other)
                          = KeysHolding(extensionIndex, other)
                    /\ KeysHolding(sizeIndex', other) = KeysHolding(sizeIndex, other)
                    /\ KeysHolding(ownerIndex', other) = KeysHolding(ownerIndex, other)
                    /\ KeysHolding(timeIndex', other) = KeysHolding(timeIndex, other)
              /\ \A a \in ResolvableFiles(nodes) \ {removed} :
                    /\ a \in ResolvableFiles(nodes')
                    /\ nodes'[a].fileData = nodes[a].fileData
              /\ \A a \in DOMAIN nodes :
                    nodes[a].isDirectory =>
                        a \in DOMAIN nodes' /\ nodes'[a].isDirectory
    ]_vars

----------------------------------------------------------------------------
(* The index footprint and the file count *)

\* no call of addFile or removeFile is between its call and its return
NoUpdateInProgress ==
    \A t \in Threads :
        pc[t] \in {"idle", "query_indexLock", "query_index", "query_lock",
                   "query_resolve", "query_return"}

====
